---- MODULE Spec2Model ----
(***************************************************************************)
(* hydra-maester: the OAuth2Client reconciler and its registry (ORY Hydra) *)
(* HTTP client, controllers/oauth2client_controller.go.                    *)
(*                                                                         *)
(* One Reconcile invocation is a sequence of blocking I/O steps (load the  *)
(* resource, GET the client, POST the client, create the Secret, update    *)
(* the status); every step is one action and the invocation's position is  *)
(* pc.  What the registry and the Kubernetes API server answer is chosen   *)
(* by the environment.                                                     *)
(***************************************************************************)
EXTENDS Integers, Sequences, FiniteSets, TLC

----------------------------------------------------------------------------
(* Bounds of the model *)

\* records the registry creates (201 answers) in one behaviour
MaxCreates == 2

\* segments of HydraURL.Path after the configured base
MaxPathLen == 2

\* direct calls of the registry client in SpecClient
MaxCalls == 3

----------------------------------------------------------------------------
(* Values *)

\* a Go nil pointer, an absent optional field, an unset string
Nil == "nil"

\* the resource identities (names, one namespace)
Keys == {"demo", "other"}

\* identifiers the registry generates: the n-th record created gets IdOf(n)
IdOf(n) == "id" \o ToString(n)

\* the secret the registry generates with the n-th record
SecretOf(n) == "secret" \o ToString(n)

Ids == {IdOf(n) : n \in 1..MaxCreates}

\* net/http status codes the code switches on
StatusOK == 200

StatusCreated == 201

StatusNoContent == 204

StatusNotFound == 404

StatusConflict == 409

\* stands for every status no operation designates
StatusInternalServerError == 500

Statuses ==
  {StatusOK, StatusCreated, StatusNoContent, StatusNotFound, StatusConflict,
   StatusInternalServerError}

MethodGet == "GET"

MethodPost == "POST"

MethodDelete == "DELETE"

\* url.URL.Path of the configured endpoint, as its segments
BasePath == <<"clients">>

----------------------------------------------------------------------------
(* api/v1alpha1: the resource and the registry's JSON client *)

\* OAuth2ClientStatus: two optional strings
EmptyStatus == [Secret |-> Nil, ClientID |-> Nil]

\* OAuth2ClientSpec of each resource (never written by the reconciler)
SpecOf(k) ==
  IF k = "demo"
    THEN [GrantTypes |-> <<"client_credentials">>, ResponseTypes |-> <<>>,
          Scope |-> "read write"]
    ELSE [GrantTypes |-> <<"authorization_code">>, ResponseTypes |-> <<"code">>,
          Scope |-> "openid"]

\* *OAuth2ClientJSON as the decoder leaves it: isNil is the nil pointer
NilClient ==
  [isNil |-> TRUE, ClientID |-> Nil, Secret |-> Nil, Name |-> Nil, Scope |-> Nil,
   GrantTypes |-> <<>>, ResponseTypes |-> <<>>]

ToOAuth2ClientJSON(name, spec) ==
  [isNil |-> FALSE, ClientID |-> Nil, Secret |-> Nil, Name |-> name,
   Scope |-> spec.Scope, GrantTypes |-> spec.GrantTypes,
   ResponseTypes |-> spec.ResponseTypes]

----------------------------------------------------------------------------
(* HTTP responses the registry may send *)

\* a response body: form is "object" (a JSON object with the optional members
\* client_id and client_secret), "null", "empty" (no bytes) or "garbage" (not JSON)
Body(form, id, secret) == [form |-> form, client_id |-> id, client_secret |-> secret]

EmptyObject == Body("object", Nil, Nil)

NoBody == Body("empty", Nil, Nil)

Garbage == Body("garbage", Nil, Nil)

NullBody == Body("null", Nil, Nil)

\* a response: transport is TRUE when HTTPClient.Do itself failed
Response(status, body) == [transport |-> FALSE, status |-> status, body |-> body]

TransportFailure == [transport |-> TRUE, status |-> 0, body |-> NoBody]

\* bodies sent with a status that carries no record
PlainBodies == {EmptyObject, NoBody, Garbage}

----------------------------------------------------------------------------
(* errors: an error is its message, a sequence of words; nil is no words *)

NoError == <<>>

\* strings.Contains on messages
Contains(msg, phrase) ==
  \E i \in 0..(Len(msg) - Len(phrase)) : SubSeq(msg, i + 1, i + Len(phrase)) = phrase

\* errors of the libraries the code calls
ErrTransport == <<"dial", "tcp", ":", "connection", "refused">>

ErrEOF == <<"EOF">>

ErrSyntax == <<"invalid", "character">>

ErrStore == <<"etcdserver", ":", "request", "timed", "out">>

ErrAlreadyExists(name) == <<"secrets", name, "already", "exists">>

ErrNotFound(name) == <<"oauth2clients", name, "not", "found">>

\* a nil pointer dereference: the invocation panics
Panic == <<"panic", ":", "invalid", "memory", "address", "or", "nil", "pointer", "dereference">>

\* url.URL.String() of the endpoint with the given path
RECURSIVE JoinSegments(_)
JoinSegments(path) ==
  IF path = <<>> THEN "" ELSE "/" \o Head(path) \o JoinSegments(Tail(path))

URLString(path) == "http://hydra" \o JoinSegments(path)

\* http.Response.Status
StatusText(status) == ToString(status)

----------------------------------------------------------------------------
(* the registry client *)

\* path.Join(r.HydraURL.Path, relativePath): an empty element is ignored
PathJoin(path, relativePath) ==
  IF relativePath = "" THEN path ELSE Append(path, relativePath)

\* mutant: Content-Type is set on every request
newRequest_AlwaysContentType(method, relativePath, hasBody, hydraPath) ==
  LET joined == PathJoin(hydraPath, relativePath)
  IN [req |-> [Method |-> method, URL |-> joined, hasBody |-> hasBody,
               Accept |-> "application/json", ContentType |-> "application/json"],
      hydraPath |-> joined]

\* newRequest: the request built, and r.HydraURL.Path as the call leaves it
newRequest(method, relativePath, hasBody, hydraPath) ==
  LET joined == PathJoin(hydraPath, relativePath)
  IN [req |-> [Method |-> method, URL |-> joined, hasBody |-> hasBody,
               Accept |-> "application/json",
               ContentType |-> IF hasBody THEN "application/json" ELSE Nil],
      hydraPath |-> joined]

\* json.Decoder.Decode(&jsonClient) on a response body, jsonClient a nil pointer
Decode(body, v) ==
  CASE body.form = "empty" -> [v |-> v, err |-> ErrEOF]
    [] body.form = "garbage" -> [v |-> v, err |-> ErrSyntax]
    [] body.form = "null" -> [v |-> NilClient, err |-> NoError]
    [] OTHER ->
         [v |-> [NilClient EXCEPT !.isNil = FALSE, !.ClientID = body.client_id,
                                  !.Secret = body.client_secret],
          err |-> NoError]

\* do: resp is nil (hasResp FALSE) when the transport failed; the decoder's
\* error is returned with the response
do(response, v) ==
  IF response.transport
    THEN [hasResp |-> FALSE, StatusCode |-> 0, v |-> v, err |-> ErrTransport]
    ELSE LET d == Decode(response.body, v)
         IN [hasResp |-> TRUE, StatusCode |-> response.status, v |-> d.v, err |-> d.err]

\* getOAuth2Client(id), the registry answering response
getOAuth2Client(id, hydraPath, response) ==
  LET nr == newRequest(MethodGet, id, FALSE, hydraPath)
      r == do(response, NilClient)
      ret(c, found, err) ==
        [client |-> c, found |-> found, err |-> err, req |-> nr.req,
         hydraPath |-> nr.hydraPath]
  IN IF r.err # NoError THEN ret(NilClient, FALSE, r.err)
     ELSE CASE r.StatusCode = StatusOK -> ret(r.v, TRUE, NoError)
            [] r.StatusCode = StatusNotFound -> ret(NilClient, FALSE, NoError)
            [] OTHER ->
                 ret(NilClient, FALSE,
                     <<nr.req.Method, URLString(nr.req.URL), "http", "request",
                       "returned", "unexpected", "status", "code",
                       StatusText(r.StatusCode)>>)

\* postOAuth2Client(c), the registry answering response
postOAuth2Client(c, hydraPath, response) ==
  LET nr == newRequest(MethodPost, "", TRUE, hydraPath)
      r == do(response, NilClient)
      ret(v, err) ==
        [client |-> v, err |-> err, req |-> nr.req, sent |-> c,
         hydraPath |-> nr.hydraPath]
  IN IF r.err # NoError THEN ret(NilClient, r.err)
     ELSE CASE r.StatusCode = StatusCreated -> ret(r.v, NoError)
            [] r.StatusCode = StatusConflict ->
                 ret(NilClient,
                     <<nr.req.Method, URLString(nr.req.URL), "http", "request",
                       "failed", ":", "requested", "ID", "already", "exists">>)
            [] OTHER ->
                 ret(NilClient,
                     <<nr.req.Method, URLString(nr.req.URL), "http", "request",
                       "returned", "unexpected", "status", "code", ":",
                       StatusText(r.StatusCode)>>)

\* deleteOAuth2Client(id): 204 and 404 are no error, any other status is one
deleteOAuth2Client(id, hydraPath, response) ==
  LET nr == newRequest(MethodDelete, id, FALSE, hydraPath)
      ret(err) == [err |-> err, req |-> nr.req, hydraPath |-> nr.hydraPath]
  IN IF response.transport THEN ret(ErrTransport)
     ELSE CASE response.status \in {StatusNoContent, StatusNotFound} -> ret(NoError)
            [] OTHER ->
                 ret(<<nr.req.Method, URLString(nr.req.URL), "http", "request",
                       "returned", "unexpected", "status", "code",
                       StatusText(response.status)>>)

----------------------------------------------------------------------------
(* State *)

\* the reconcile workers; Spec runs one (controller-runtime's default,
\* MaxConcurrentReconciles = 1)
Workers == {1, 2}

VARIABLES
  resources,  \* API server: per identity, whether the OAuth2Client exists, its
              \* resourceVersion and its Status
  secrets,    \* API server: per identity, Data["client_secret"] of the Secret of that name, or Nil
  registry,   \* the records the registry holds: identifier, secret and name
  nextId,     \* the registry's generator: the next record is the nextId-th
  hydraPath,  \* r.HydraURL.Path
  pc,         \* per worker, the position of its Reconcile invocation
  key,        \* per worker, req.NamespacedName
  client,     \* per worker, the object r.Get loaded: resourceVersion and Status
  registered, \* per worker, the local of that name
  created,    \* per worker, what postOAuth2Client returned
  result,     \* per worker, the error the last invocation returned
  effects,    \* per worker, the requests the invocation has made, in order
  joined,     \* per worker, in newRequest: what path.Join returned, before it is
              \* assigned to r.HydraURL.Path
  calls       \* SpecClient: how many direct calls were made, and the last one

storeVars == <<resources, secrets>>

registryVars == <<registry, nextId>>

workerVars == <<pc, key, client, registered, created, result, effects, joined>>

vars ==
  <<resources, secrets, registry, nextId, hydraPath, pc, key, client, registered,
    created, result, effects, joined, calls>>

\* one request of an invocation: op names the collaborator's operation, url is the
\* target of an HTTP request, status the HTTP status (0: none), err the error the
\* call returned
Effect(op, url, status, err) == [op |-> op, url |-> url, status |-> status, err |-> err]

\* the registry's record of a client
Record(n, name) == [client_id |-> IdOf(n), client_secret |-> SecretOf(n), client_name |-> name]

\* the zero OAuth2Client
NoObject == [ResourceVersion |-> 0, Status |-> EmptyStatus]

\* a direct call of the registry client and what it returned
Call(op, id, response, req, c, found, err) ==
  [op |-> op, id |-> id, response |-> response, req |-> req, client |-> c,
   found |-> found, err |-> err]

NoRequest ==
  [Method |-> "", URL |-> <<>>, hasBody |-> FALSE, Accept |-> Nil, ContentType |-> Nil]

NoCalls ==
  [n |-> 0, last |-> Call("", "", TransportFailure, NoRequest, NilClient, FALSE, NoError)]

Init ==
  /\ resources \in [Keys -> {[exists |-> e, ResourceVersion |-> 1, Status |-> EmptyStatus] :
                              e \in BOOLEAN}]
  /\ secrets = [k \in Keys |-> Nil]
  /\ registry = {}
  /\ nextId = 1
  /\ hydraPath = BasePath
  /\ pc = [w \in Workers |-> "idle"]
  /\ key = [w \in Workers |-> "demo"]
  /\ client = [w \in Workers |-> NoObject]
  /\ registered = [w \in Workers |-> FALSE]
  /\ created = [w \in Workers |-> NilClient]
  /\ result = [w \in Workers |-> NoError]
  /\ effects = [w \in Workers |-> <<>>]
  /\ joined = [w \in Workers |-> <<>>]
  /\ calls = NoCalls

----------------------------------------------------------------------------
(* What the collaborators may answer *)

\* to GET {base}/{id}
LookupResponses(id) ==
  {TransportFailure}
    \cup {Response(StatusOK, b) :
            b \in {Body("object", id, Nil), EmptyObject, NullBody, NoBody, Garbage}}
    \cup {Response(s, b) : s \in Statuses \ {StatusOK}, b \in PlainBodies}

\* to POST {base}: a 201 answers for the n-th record, which the registry then holds
CreateResponses(n) ==
  {TransportFailure}
    \cup {Response(StatusCreated, b) :
            b \in {Body("object", IdOf(n), SecretOf(n)), Body("object", IdOf(n), Nil),
                   Body("object", Nil, SecretOf(n)), EmptyObject, NullBody, NoBody,
                   Garbage}}
    \cup {Response(s, b) : s \in Statuses \ {StatusCreated}, b \in PlainBodies}

\* to DELETE {base}/{id}
DeleteResponses ==
  {TransportFailure} \cup {Response(s, b) : s \in Statuses, b \in PlainBodies}

Accepted(response) == ~response.transport /\ response.status = StatusCreated

StatusOf(response) == IF response.transport THEN 0 ELSE response.status

\* client.Get of the OAuth2Client: NotFound when it does not exist
Get(store, name, accept) ==
  IF ~accept THEN [obj |-> NoObject, err |-> ErrStore]
  ELSE IF ~store[name].exists THEN [obj |-> NoObject, err |-> ErrNotFound(name)]
  ELSE [obj |-> [ResourceVersion |-> store[name].ResourceVersion,
                 Status |-> store[name].Status],
        err |-> NoError]

\* apierrs.IsNotFound
IsNotFound(err) == Contains(err, <<"not", "found">>)

\* mutant: a Secret of that name is overwritten
SecretCreate_Overwrites(store, name, data, accept) ==
  IF ~accept THEN [store |-> store, err |-> ErrStore]
  ELSE [store |-> [store EXCEPT ![name] = data], err |-> NoError]

\* client.Create of a Secret: the API server refuses a name that is taken
SecretCreate(store, name, data, accept) ==
  IF store[name] # Nil THEN [store |-> store, err |-> ErrAlreadyExists(name)]
  ELSE IF ~accept THEN [store |-> store, err |-> ErrStore]
  ELSE [store |-> [store EXCEPT ![name] = data], err |-> NoError]

ErrConflict(name) ==
  <<"Operation", "cannot", "be", "fulfilled", "on", "oauth2clients", name, ":", "the",
    "object", "has", "been", "modified">>

\* client.Status().Update of the OAuth2Client: the object must still exist and be
\* at the resourceVersion that was loaded
StatusUpdate(store, name, obj, accept) ==
  IF ~accept THEN [store |-> store, err |-> ErrStore]
  ELSE IF ~store[name].exists THEN [store |-> store, err |-> ErrNotFound(name)]
  ELSE IF store[name].ResourceVersion # obj.ResourceVersion
    THEN [store |-> store, err |-> ErrConflict(name)]
  ELSE [store |-> [store EXCEPT ![name].Status = obj.Status,
                                ![name].ResourceVersion = @ + 1],
        err |-> NoError]

----------------------------------------------------------------------------
(* Reconcile *)

\* mutant: a failed step is tried again within the invocation
Return_Retries(w, err) ==
  /\ pc' = [pc EXCEPT ![w] = IF err # NoError /\ pc[w] \notin {"idle", "done"}
                               THEN pc[w] ELSE "done"]
  /\ result' = [result EXCEPT ![w] = err]

\* the invocation returns err
Return(w, err) ==
  /\ pc' = [pc EXCEPT ![w] = "done"]
  /\ result' = [result EXCEPT ![w] = err]

Goto(w, label) ==
  /\ pc' = [pc EXCEPT ![w] = label]
  /\ UNCHANGED result

Log(w, e) == effects' = [effects EXCEPT ![w] = Append(@, e)]

\* mutant: registration without looking the recorded identifier up
AfterGet_AlwaysPost(status) == "post"

\* mutant: a lookup although no identifier is recorded
AfterGet_AlwaysLookup(status) == "lookup"

\* after the load: a recorded identifier is looked up, none goes to registration
AfterGet(status) == IF status.ClientID # Nil THEN "lookup" ELSE "post"

\* mutant: a missing resource is reported as an error
GetFailed_Propagates(err) == err

\* what Reconcile returns when r.Get failed with err
GetFailed(err) == IF IsNotFound(err) THEN NoError ELSE err

\* Reconcile, to the end of r.Get; accept is whether the API server answers
Reconcile(w, k, accept) ==
  /\ pc[w] \in {"idle", "done"}
  /\ LET g == Get(resources, k, accept)
     IN /\ key' = [key EXCEPT ![w] = k]
        /\ client' = [client EXCEPT ![w] = g.obj]
        /\ registered' = [registered EXCEPT ![w] = FALSE]
        /\ created' = [created EXCEPT ![w] = NilClient]
        /\ effects' = [effects EXCEPT ![w] = <<Effect("Get", <<>>, 0, g.err)>>]
        /\ IF g.err # NoError THEN Return(w, GetFailed(g.err))
           ELSE /\ pc' = [pc EXCEPT ![w] = AfterGet(g.obj.Status)]
                /\ result' = [result EXCEPT ![w] = NoError]
  /\ UNCHANGED <<storeVars, registryVars, hydraPath, joined, calls>>

\* mutant: registers again although the client was found
AfterLookup_IgnoresFound(g) == IF g.err # NoError THEN "error" ELSE "post"

\* mutant: a failed lookup counts as not registered
AfterLookup_IgnoresError(g) == IF g.found THEN "done" ELSE "post"

\* mutant: a failed lookup ends the invocation with success
AfterLookup_ErrorIsDone(g) ==
  IF g.err # NoError THEN "done" ELSE IF ~g.found THEN "post" ELSE "done"

\* mutant: a client the registry does not know is not registered again
AfterLookup_NotFoundIsDone(g) == IF g.err # NoError THEN "error" ELSE "done"

\* after getOAuth2Client returned g: "error", "done" (registered) or "post"
AfterLookup(g) ==
  IF g.err # NoError THEN "error" ELSE IF ~g.found THEN "post" ELSE "done"

\* Reconcile, from the return of getOAuth2Client with g, the registry having
\* answered response
LookupReturned(w, g, response) ==
  /\ LET next == AfterLookup(g)
     IN /\ hydraPath' = g.hydraPath
        /\ registered' = [registered EXCEPT ![w] = g.found]
        /\ Log(w, Effect("Lookup", g.req.URL, StatusOf(response), g.err))
        /\ CASE next = "error" -> Return(w, g.err)
             [] next = "done" -> Return(w, NoError)
             [] OTHER -> Goto(w, "post")
  /\ UNCHANGED <<storeVars, registryVars, key, client, created, joined, calls>>

\* Reconcile, the lookup of the recorded identifier
ReconcileLookup(w, response) ==
  /\ pc[w] = "lookup"
  /\ Len(hydraPath) < Len(BasePath) + MaxPathLen
  /\ LookupReturned(w, getOAuth2Client(client[w].Status.ClientID, hydraPath, response),
                    response)

\* the next value of the registry's generator; wrap keeps it within the bound
\* by issuing the last identifier again
Generate(n, wrap) == IF wrap /\ n >= MaxCreates THEN n ELSE n + 1

\* mutant: the Secret holds the identifier instead of the secret
ClientSecret_StoresClientID(name, c) ==
  [Name |-> name, Data |-> c.ClientID, panics |-> c.isNil \/ c.Secret = Nil]

\* the Secret registerOAuth2Client builds; evaluating *created.Secret panics on nil
ClientSecret(name, c) ==
  [Name |-> name, Data |-> c.Secret, panics |-> c.isNil \/ c.Secret = Nil]

\* registerOAuth2Client, from the return of postOAuth2Client with p to the end of
\* the Secret literal, the registry having answered response
PostReturned(w, p, response, wrap) ==
  /\ Accepted(response) => nextId <= MaxCreates
  /\ hydraPath' = p.hydraPath
  /\ Log(w, Effect("Create", p.req.URL, StatusOf(response), p.err))
  /\ created' = [created EXCEPT ![w] = p.client]
  /\ IF p.err # NoError THEN Return(w, p.err)
     ELSE IF ClientSecret(key[w], p.client).panics THEN Return(w, Panic)
     ELSE Goto(w, "secret")
  /\ IF Accepted(response)
       THEN /\ registry' = registry \cup {Record(nextId, p.sent.Name)}
            /\ nextId' = Generate(nextId, wrap)
       ELSE UNCHANGED registryVars
  /\ UNCHANGED <<storeVars, key, client, registered, joined, calls>>

\* registerOAuth2Client, to the end of postOAuth2Client and the Secret literal
RegisterPost(w, response, wrap) ==
  /\ pc[w] = "post"
  /\ PostReturned(w, postOAuth2Client(ToOAuth2ClientJSON(key[w], SpecOf(key[w])),
                                      hydraPath, response),
                  response, wrap)

\* mutant: the error of r.Create is dropped
RegisterSecret_IgnoresError(w, accept) ==
  /\ pc[w] = "secret"
  /\ LET obj == ClientSecret(key[w], created[w])
         c == SecretCreate(secrets, obj.Name, obj.Data, accept)
     IN /\ secrets' = c.store
        /\ Log(w, Effect("SecretCreate", <<>>, 0, c.err))
        /\ Goto(w, "status")
  /\ UNCHANGED <<resources, registryVars, hydraPath, key, client, registered, created,
                 joined, calls>>

\* registerOAuth2Client, r.Create of the Secret
RegisterSecret(w, accept) ==
  /\ pc[w] = "secret"
  /\ LET obj == ClientSecret(key[w], created[w])
         c == SecretCreate(secrets, obj.Name, obj.Data, accept)
     IN /\ secrets' = c.store
        /\ Log(w, Effect("SecretCreate", <<>>, 0, c.err))
        /\ IF c.err # NoError THEN Return(w, c.err) ELSE Goto(w, "status")
  /\ UNCHANGED <<resources, registryVars, hydraPath, key, client, registered, created,
                 joined, calls>>

\* mutant: the identifier is not recorded
NewStatus_DropsClientID(secretName, c) == [Secret |-> secretName, ClientID |-> Nil]

\* the Status registerOAuth2Client writes
NewStatus(secretName, c) == [Secret |-> secretName, ClientID |-> c.ClientID]

\* registerOAuth2Client, the assignments to client.Status and r.Status().Update
RegisterStatus(w, accept) ==
  /\ pc[w] = "status"
  /\ LET status == NewStatus(ClientSecret(key[w], created[w]).Name, created[w])
         obj == [client[w] EXCEPT !.Status = status]
         u == StatusUpdate(resources, key[w], obj, accept)
     IN /\ resources' = u.store
        /\ client' = [client EXCEPT ![w] = obj]
        /\ Log(w, Effect("StatusUpdate", <<>>, 0, u.err))
        /\ Return(w, u.err)
  /\ UNCHANGED <<secrets, registryVars, hydraPath, key, registered, created, joined,
                 calls>>

\* one step of worker w
Step(w) ==
  \/ \E k \in Keys, accept \in BOOLEAN : Reconcile(w, k, accept)
  \/ \E response \in LookupResponses(client[w].Status.ClientID) :
       ReconcileLookup(w, response)
  \/ \E response \in CreateResponses(nextId) : RegisterPost(w, response, FALSE)
  \/ \E accept \in BOOLEAN : RegisterSecret(w, accept)
  \/ \E accept \in BOOLEAN : RegisterStatus(w, accept)

----------------------------------------------------------------------------
(* The environment *)

\* the user deletes the resource; nothing owns the Secret, which stays
DeleteResource(k) ==
  /\ resources[k].exists
  /\ resources' = [resources EXCEPT ![k].exists = FALSE, ![k].Status = EmptyStatus]
  /\ UNCHANGED <<secrets, registryVars, hydraPath, workerVars, calls>>

\* somebody else deletes the Secret
DeleteSecret(k) ==
  /\ secrets[k] # Nil
  /\ secrets' = [secrets EXCEPT ![k] = Nil]
  /\ UNCHANGED <<resources, registryVars, hydraPath, workerVars, calls>>

----------------------------------------------------------------------------
(* Specifications *)

\* one worker; only the reconciler writes the registry and the Secrets
Next ==
  \/ Step(1)
  \/ \E k \in Keys : DeleteResource(k)

Spec == Init /\ [][Next]_vars

\* one worker, and the Secrets are shared with others
NextEnv ==
  \/ Step(1)
  \/ \E k \in Keys : DeleteResource(k)
  \/ \E k \in Keys : DeleteSecret(k)

SpecEnv == Init /\ [][NextEnv]_vars

\* The scheduler re-invokes Reconcile for every resource that is not Registered,
\* and every failure is transient: the API server and the registry answer
\* well-formed, each accepts again and again, nobody else touches the resources
\* or the Secrets, and the registry never runs out of identifiers.
CreatedResponse(n) == Response(StatusCreated, Body("object", IdOf(n), SecretOf(n)))

LiveCreateResponses(n) ==
  {TransportFailure, CreatedResponse(n), Response(StatusInternalServerError, EmptyObject)}

Requeue(k, accept) == resources[k].Status.ClientID = Nil /\ Reconcile(1, k, accept)

NextLive ==
  \/ \E k \in Keys, accept \in BOOLEAN : Requeue(k, accept)
  \/ \E response \in LiveCreateResponses(nextId) : RegisterPost(1, response, TRUE)
  \/ \E accept \in BOOLEAN : RegisterSecret(1, accept)
  \/ \E accept \in BOOLEAN : RegisterStatus(1, accept)

Fairness ==
  /\ WF_vars(NextLive)
  /\ \A k \in Keys : SF_vars(Requeue(k, TRUE))
  /\ SF_vars(RegisterPost(1, CreatedResponse(nextId), TRUE))
  /\ SF_vars(RegisterSecret(1, TRUE))
  /\ SF_vars(RegisterStatus(1, TRUE))

SpecLive == Init /\ [][NextLive]_vars /\ Fairness

----------------------------------------------------------------------------
(* The registry client called directly, as TestCRUD calls it *)

CallLookup(id, response) ==
  /\ calls.n < MaxCalls
  /\ Len(hydraPath) < Len(BasePath) + MaxPathLen
  /\ LET g == getOAuth2Client(id, hydraPath, response)
     IN /\ hydraPath' = g.hydraPath
        /\ calls' = [n |-> calls.n + 1,
                     last |-> Call("Lookup", id, response, g.req, g.client, g.found, g.err)]
  /\ UNCHANGED <<storeVars, registryVars, workerVars>>

CallCreate(k, response) ==
  /\ calls.n < MaxCalls
  /\ LET p == postOAuth2Client(ToOAuth2ClientJSON(k, SpecOf(k)), hydraPath, response)
     IN /\ hydraPath' = p.hydraPath
        /\ calls' = [n |-> calls.n + 1,
                     last |-> Call("Create", "", response, p.req, p.client, FALSE, p.err)]
  /\ UNCHANGED <<storeVars, registryVars, workerVars>>

CallDelete(id, response) ==
  /\ calls.n < MaxCalls
  /\ Len(hydraPath) < Len(BasePath) + MaxPathLen
  /\ LET d == deleteOAuth2Client(id, hydraPath, response)
     IN /\ hydraPath' = d.hydraPath
        /\ calls' = [n |-> calls.n + 1,
                     last |-> Call("Delete", id, response, d.req, NilClient, FALSE, d.err)]
  /\ UNCHANGED <<storeVars, registryVars, workerVars>>

NextClient ==
  \/ \E id \in Ids : \E response \in LookupResponses(id) : CallLookup(id, response)
  \/ \E k \in Keys, response \in CreateResponses(1) : CallCreate(k, response)
  \/ \E id \in Ids, response \in DeleteResponses : CallDelete(id, response)

SpecClient == Init /\ [][NextClient]_vars

----------------------------------------------------------------------------
(* Concurrent invocations.  The workers share r.HydraURL without a lock, so      *)
(* newRequest is taken statement by statement: the read of the path and          *)
(* path.Join, the assignment to r.HydraURL.Path, and http.NewRequest, which      *)
(* reads the path again.                                                         *)

\* the resource each worker reconciles when the workers take different resources
Owned(w) == IF w = 1 THEN "demo" ELSE "other"

\* relativePath of the request worker w is about to build
RelativePath(w) == IF pc[w] = "lookup" THEN client[w].Status.ClientID ELSE ""

\* newRequest: r.HydraURL.Path is read and joined with relativePath
JoinPath(w) ==
  /\ pc[w] \in {"lookup", "post"}
  /\ Len(hydraPath) < Len(BasePath) + MaxPathLen
  /\ joined' = [joined EXCEPT ![w] = PathJoin(hydraPath, RelativePath(w))]
  /\ pc' = [pc EXCEPT ![w] = IF pc[w] = "lookup" THEN "lookupJoined" ELSE "postJoined"]
  /\ UNCHANGED <<storeVars, registryVars, hydraPath, key, client, registered, created,
                 result, effects, calls>>

\* newRequest: the assignment to r.HydraURL.Path
StorePath(w) ==
  /\ pc[w] \in {"lookupJoined", "postJoined"}
  /\ hydraPath' = joined[w]
  /\ pc' = [pc EXCEPT ![w] = IF pc[w] = "lookupJoined" THEN "lookupStored" ELSE "postStored"]
  /\ UNCHANGED <<storeVars, registryVars, key, client, registered, created, result,
                 effects, joined, calls>>

\* getOAuth2Client from http.NewRequest on: the request goes to what
\* r.HydraURL.Path holds now, nothing is left to join
LookupSend(w, response) ==
  /\ pc[w] = "lookupStored"
  /\ LookupReturned(w, getOAuth2Client("", hydraPath, response), response)

\* postOAuth2Client from http.NewRequest on
PostSend(w, response) ==
  /\ pc[w] = "postStored"
  /\ PostReturned(w, postOAuth2Client(ToOAuth2ClientJSON(key[w], SpecOf(key[w])),
                                      hydraPath, response),
                  response, FALSE)

\* what the registry answers concurrent invocations: one answer of each kind
\* the reconciler tells apart
ConcLookupResponses(id) ==
  {TransportFailure, Response(StatusOK, Body("object", id, Nil)),
   Response(StatusNotFound, EmptyObject)}

ConcCreateResponses(n) ==
  {TransportFailure, CreatedResponse(n),
   Response(StatusCreated, Body("object", Nil, SecretOf(n))),
   Response(StatusCreated, Body("object", IdOf(n), Nil)),
   Response(StatusConflict, EmptyObject)}

\* one step of worker w, which reconciles the resources in K
ConcStep(w, K) ==
  \/ \E k \in K, accept \in BOOLEAN : Reconcile(w, k, accept)
  \/ JoinPath(w)
  \/ StorePath(w)
  \/ \E response \in ConcLookupResponses(client[w].Status.ClientID) :
       LookupSend(w, response)
  \/ \E response \in ConcCreateResponses(nextId) : PostSend(w, response)
  \/ \E accept \in BOOLEAN : RegisterSecret(w, accept)
  \/ \E accept \in BOOLEAN : RegisterStatus(w, accept)

\* two workers, each reconciling its own resource
NextConc == \E w \in Workers : ConcStep(w, {Owned(w)})

SpecConc == Init /\ [][NextConc]_vars

\* two workers, both reconciling the same resource
NextSame == \E w \in Workers : ConcStep(w, {"demo"})

SpecSame == Init /\ [][NextSame]_vars

----------------------------------------------------------------------------
(* Properties *)

\* the operations an invocation has requested, in order
Ops(w) == [i \in 1..Len(effects[w]) |-> effects[w][i].op]

\* worker w's invocation ends in this step
Ends(w) == pc[w] \notin {"idle", "done"} /\ pc'[w] = "done"

\* every collaborator accepted what worker w's invocation asked of it: no call
\* returned an error, and Create was answered 201 with an identifier and a secret
AllAccepted(w) ==
  /\ \A i \in 1..Len(effects[w]) :
       /\ effects[w][i].err = NoError
       /\ effects[w][i].op = "Create" =>
            /\ effects[w][i].status = StatusCreated
            /\ ~created[w].isNil
            /\ created[w].ClientID # Nil
            /\ created[w].Secret # Nil

\* the resource is Registered, by the record Create returned to w, whose secret
\* is in the Secret named after the resource
RegisteredBy(k, w) ==
  /\ resources[k].exists
  /\ resources[k].Status.ClientID \notin {Nil, ""}
  /\ resources[k].Status.ClientID = created[w].ClientID
  /\ resources[k].Status.Secret = k
  /\ secrets[resources[k].Status.Secret] \notin {Nil, ""}
  /\ secrets[resources[k].Status.Secret] = created[w].Secret

\* C1: an invocation that loaded a resource with no identifier, and whose Create,
\* Secret creation and status update were all accepted, ends with the resource
\* Registered: status.clientID and status.secret set, the Secret holding the secret.
C1_RegistersInOnePass ==
  [][\A w \in Workers :
       (Ends(w) /\ client[w].Status.ClientID = Nil /\ AllAccepted(w)')
         => RegisteredBy(key[w], w)']_vars

C1_Witness ==
  /\ pc[1] = "done"
  /\ AllAccepted(1)
  /\ Ops(1) = <<"Get", "Create", "SecretCreate", "StatusUpdate">>
  /\ RegisteredBy(key[1], 1)

\* C2: when the lookup of the recorded identifier returns found = true, the
\* invocation ends there with success: no Create, no Secret, and the resource, the
\* Secrets and the registry are as they were.
C2_RegisteredIsNoOp ==
  [][\A w \in Workers :
       (pc[w] = "lookup" /\ registered'[w] /\ effects'[w] # effects[w])
         => /\ pc'[w] = "done"
            /\ result'[w] = NoError
            /\ Ops(w)' = <<"Get", "Lookup">>
            /\ UNCHANGED <<resources, secrets, registry, nextId>>]_vars

\* a second no-op invocation in a row
C2_Witness ==
  /\ pc[1] = "done"
  /\ registered[1]
  /\ result[1] = NoError
  /\ Ops(1) = <<"Get", "Lookup">>
  /\ Len(hydraPath) = Len(BasePath) + 2
  /\ resources[key[1]].Status.ClientID # Nil

\* C3 as claimed: while the resource exists, a recorded identifier is never
\* cleared or replaced.
C3_NeverReassigned ==
  [][\A k \in Keys :
       (resources[k].Status.ClientID # Nil /\ resources'[k].exists)
         => resources'[k].Status.ClientID = resources[k].Status.ClientID]_vars

\* C3 amended: a recorded identifier changes only at the status update of an
\* invocation whose lookup of it returned found = false without error, and it
\* becomes what that invocation's Create returned.
C3_ReassignedOnlyByReRegistration ==
  [][\A k \in Keys :
       (/\ resources[k].Status.ClientID # Nil
        /\ resources'[k].exists
        /\ resources'[k].Status.ClientID # resources[k].Status.ClientID)
         => \E w \in Workers :
              /\ key[w] = k
              /\ pc[w] = "status"
              /\ Len(effects[w]) >= 2
              /\ effects[w][2].op = "Lookup"
              /\ effects[w][2].err = NoError
              /\ ~registered[w]
              /\ resources'[k].Status.ClientID = created[w].ClientID]_vars

\* a re-registration has replaced the identifier
C3_Witness ==
  /\ pc[1] = "done"
  /\ Ops(1) = <<"Get", "Lookup", "Create", "SecretCreate", "StatusUpdate">>
  /\ result[1] = NoError
  /\ client[1].Status.ClientID = IdOf(2)
  /\ resources[key[1]].Status.ClientID = IdOf(2)

\* C4 as claimed: the registry accepts at most one Create for a resource.
C4_AtMostOneCreate ==
  \A k \in Keys : Cardinality({r \in registry : r.client_name = k}) <= 1

\* C6: a recorded identifier is that of a record the registry holds, and the
\* Secret named after the resource exists.
C6_RegisteredHasRecordAndSecret ==
  \A k \in Keys :
    resources[k].Status.ClientID # Nil
      => /\ \E r \in registry : r.client_id = resources[k].Status.ClientID
         /\ resources[k].Status.Secret = k
         /\ secrets[k] # Nil

C6_Witness ==
  \E k \in Keys :
    /\ resources[k].Status.ClientID # Nil
    /\ \E r \in registry : r.client_id = resources[k].Status.ClientID
    /\ secrets[k] # Nil
    /\ Cardinality(registry) = 2

\* C5 as claimed: with re-invocation and transient failures only, every
\* existing resource is eventually Registered for good.
C5_EventuallyRegistered ==
  <>[](\A k \in Keys : resources[k].exists => resources[k].Status.ClientID # Nil)

\* worker w takes a step
Moves(w) ==
  <<pc[w], key[w], client[w], registered[w], created[w], result[w], effects[w],
    joined[w]>>'
    # <<pc[w], key[w], client[w], registered[w], created[w], result[w], effects[w],
        joined[w]>>

\* C7: when the load fails, Reconcile ends at once having requested nothing else
\* and written nothing; it returns success when the resource does not exist and
\* the load error otherwise.
C7_LoadFailure ==
  [][\A w \in Workers :
       (pc[w] \in {"idle", "done"} /\ Moves(w))
         => LET k == key'[w]
                err == effects'[w][1].err
            IN /\ Ops(w)' = <<"Get">>
               /\ ~resources[k].exists => err # NoError
               /\ err # NoError =>
                    /\ pc'[w] = "done"
                    /\ result'[w] = IF err = ErrNotFound(k) THEN NoError ELSE err
                    /\ UNCHANGED <<resources, secrets, registry, nextId, hydraPath>>]_vars

C7_Witness ==
  /\ pc[1] = "done"
  /\ Ops(1) = <<"Get">>
  /\ ~resources[key[1]].exists
  /\ effects[1][1].err = ErrNotFound(key[1])
  /\ result[1] = NoError

\* C8 as claimed: a Lookup answered 404 returns (nil, false, nil), whatever the body.
C8_NotFoundIsNoError ==
  (calls.last.op = "Lookup" /\ StatusOf(calls.last.response) = StatusNotFound)
    => /\ calls.last.client = NilClient
       /\ ~calls.last.found
       /\ calls.last.err = NoError

\* C9 as claimed: when Create is answered 409, the invocation ends there with an
\* error that says "already exists"; no Secret is created and the status is as it was.
C9_ConflictSurfaced ==
  [][\A w \in Workers :
       (pc[w] = "post" /\ Moves(w) /\ effects'[w][Len(effects'[w])].status = StatusConflict)
         => /\ pc'[w] = "done"
            /\ Contains(result'[w], <<"already", "exists">>)
            /\ result'[w] = effects'[w][Len(effects'[w])].err
            /\ UNCHANGED <<resources, secrets>>]_vars

\* the statuses each operation designates
Designated(op) ==
  CASE op = "Lookup" -> {StatusOK, StatusNotFound}
    [] op = "Create" -> {StatusCreated, StatusConflict}
    [] op = "Delete" -> {StatusNoContent, StatusNotFound}
    [] OTHER -> {}

\* C10 as claimed: a response of any other status makes the operation return an
\* error that names the request's method and URL, and no record.
C10_UnexpectedStatusNamed ==
  (/\ calls.n > 0
   /\ ~calls.last.response.transport
   /\ calls.last.response.status \notin Designated(calls.last.op))
    => /\ calls.last.err # NoError
       /\ Contains(calls.last.err, <<calls.last.req.Method>>)
       /\ Contains(calls.last.err, <<URLString(calls.last.req.URL)>>)
       /\ calls.last.client = NilClient
       /\ ~calls.last.found

\* worker w's invocation ends in this step with a successful status update
Registers(w) == pc[w] = "status" /\ pc'[w] = "done" /\ result'[w] = NoError

\* C11: when a registration pass succeeds, what its Create returned is the
\* identifier (if the response carried one) and the secret of the record the
\* registry just made; the Secret is named after the resource and holds that
\* secret, status.secret is the resource's name and status.clientID is the
\* identifier Create returned.
C11_PassStoresWhatCreateReturned ==
  [][\A w \in Workers :
       Registers(w)
         => LET k == key[w]
                r == Record(nextId - 1, k)
            IN /\ r \in registry
               /\ created[w].Secret = r.client_secret
               /\ created[w].ClientID \in {r.client_id, Nil}
               /\ ClientSecret(k, created[w]).Name = k
               /\ secrets'[k] = created[w].Secret
               /\ resources'[k].Status.Secret = k
               /\ resources'[k].Status.ClientID = created[w].ClientID]_vars

\* a successful pass for the second resource, after a Create whose record was lost
C11_Witness ==
  /\ pc[1] = "done"
  /\ result[1] = NoError
  /\ Ops(1) = <<"Get", "Create", "SecretCreate", "StatusUpdate">>
  /\ key[1] = "other"
  /\ created[1].ClientID = IdOf(2)
  /\ secrets["other"] = SecretOf(2)
  /\ resources["other"].Status = [Secret |-> "other", ClientID |-> IdOf(2)]

\* C12 as claimed: building a request leaves the configured base endpoint as it
\* was; every Lookup(id) targets {base}/{id} and every Create targets {base}.
C12_RequestsTargetBase ==
  /\ hydraPath = BasePath
  /\ calls.last.op = "Lookup" => calls.last.req.URL = Append(BasePath, calls.last.id)
  /\ calls.last.op = "Create" => calls.last.req.URL = BasePath

\* the last request worker w's invocation made
LastEffect(w) == effects[w][Len(effects[w])]

\* C13: a Lookup answered with a transport failure or an unexpected status
\* returns an error, and when Lookup returns an error the invocation ends there
\* returning that error: no Create, no Secret, and the status is as it was.
C13_LookupErrorPropagates ==
  [][\A w \in Workers :
       (pc[w] = "lookup" /\ Moves(w))
         => /\ LastEffect(w)'.status \notin {StatusOK, StatusNotFound}
                 => LastEffect(w)'.err # NoError
            /\ LastEffect(w)'.err # NoError
                 => /\ pc'[w] = "done"
                    /\ result'[w] = LastEffect(w)'.err
                    /\ Ops(w)' = <<"Get", "Lookup">>
                    /\ UNCHANGED <<resources, secrets, registry, nextId>>]_vars

C13_Witness ==
  /\ pc[1] = "done"
  /\ Ops(1) = <<"Get", "Lookup">>
  /\ effects[1][2].status = StatusInternalServerError
  /\ Contains(result[1], <<"unexpected", "status", "code">>)
  /\ resources[key[1]].Status.ClientID = IdOf(1)

\* C14: when the Lookup of the recorded identifier returns found = false without
\* error, the invocation goes on to registration, and its next request is the
\* Create, whose body carries the resource's name.
C14_NotFoundRegistersAgain ==
  [][\A w \in Workers :
       /\ (pc[w] = "lookup" /\ Moves(w) /\ LastEffect(w)'.err = NoError /\ ~registered'[w])
            => /\ pc'[w] = "post"
               /\ client[w].Status.ClientID # Nil
               /\ key'[w] = key[w]
       /\ (pc[w] = "post" /\ Moves(w))
            => /\ Ops(w)' = Append(Ops(w), "Create")
               /\ registry' # registry
                    => registry' \ registry = {Record(nextId, key[w])}]_vars

C14_Witness ==
  /\ Ops(1) = <<"Get", "Lookup", "Create">>
  /\ effects[1][2].status = StatusNotFound
  /\ effects[1][2].err = NoError
  /\ effects[1][3].status = StatusCreated
  /\ Record(2, key[1]) \in registry

\* worker w's invocation fails in this step at the Secret creation or at the
\* status update, that is after its Create was accepted
FailsAfterCreate(w) ==
  pc[w] \in {"secret", "status"} /\ Moves(w) /\ LastEffect(w)'.err # NoError

\* worker w's last invocation failed at the Secret creation or the status update
FailedAfterCreate(w) ==
  /\ pc[w] = "done"
  /\ result[w] # NoError
  /\ Len(effects[w]) >= 3
  /\ LastEffect(w).op \in {"SecretCreate", "StatusUpdate"}

\* worker w starts in this step the next invocation for the same resource, and loads it
LoadsAgain(w) ==
  /\ FailedAfterCreate(w)
  /\ Moves(w)
  /\ key'[w] = key[w]
  /\ effects'[w][1].err = NoError

\* what C15 says of the failing step in every case: the error is returned, the
\* registry keeps the record just created, which no status names
NoCompensation(w) ==
  /\ pc'[w] = "done"
  /\ result'[w] = LastEffect(w)'.err
  /\ registry' = registry
  /\ \E r \in registry : r.client_secret = created[w].Secret /\ r.client_name = key[w]
  /\ \A k \in Keys :
       created[w].ClientID # Nil => resources'[k].Status.ClientID # created[w].ClientID
  /\ "Delete" \notin {effects'[w][i].op : i \in 1..Len(effects'[w])}

\* C15 as claimed: when the Secret creation or the status update fails after an
\* accepted Create, the error is returned, nothing is undone, the stored status
\* has no identifier, and the next invocation goes to the Create without a Lookup.
C15_FailedPassIsUnregistered ==
  [][\A w \in Workers :
       /\ FailsAfterCreate(w)
            => /\ NoCompensation(w)
               /\ resources'[key[w]].Status.ClientID = Nil
       /\ LoadsAgain(w) => pc'[w] = "post"]_vars

\* C15 amended: the stored status is as it was loaded, so it has no identifier
\* after a failed first registration and still names the lost identifier after a
\* failed re-registration; the next invocation that loads the resource goes to
\* the Create without a Lookup in the first case and looks the old identifier up
\* first in the second.
C15_FailedPassLeavesStatusAsLoaded ==
  [][\A w \in Workers :
       /\ FailsAfterCreate(w)
            => /\ NoCompensation(w)
               /\ resources' = resources
               /\ resources'[key[w]].exists
                    => resources'[key[w]].Status.ClientID = client[w].Status.ClientID
               /\ Ops(w)[2] = "Create" => resources'[key[w]].Status.ClientID = Nil
       /\ LoadsAgain(w)
            => /\ Ops(w)[2] = "Create" => pc'[w] = "post"
               /\ Ops(w)[2] = "Lookup"
                    => /\ pc'[w] = "lookup"
                       /\ client'[w].Status.ClientID = effects[w][2].url[Len(effects[w][2].url)]]_vars

\* the second Create for a resource whose Secret was created and whose status
\* update failed
C15_Witness ==
  \E k \in Keys :
    /\ key[1] = k
    /\ Ops(1) = <<"Get", "Create">>
    /\ effects[1][2].status = StatusCreated
    /\ registry = {Record(1, k), Record(2, k)}
    /\ secrets[k] = SecretOf(1)
    /\ resources[k].exists
    /\ resources[k].Status.ClientID = Nil

\* the requests of a re-registration and of a first registration, in code order
StepsWithLookup == <<"Get", "Lookup", "Create", "SecretCreate", "StatusUpdate">>

StepsWithoutLookup == <<"Get", "Create", "SecretCreate", "StatusUpdate">>

\* the i-th request of worker w's invocation succeeded so that the code goes on:
\* no error, a Lookup that found nothing, a Create answered 201
WentOn(w, i) ==
  /\ effects[w][i].err = NoError
  /\ effects[w][i].op = "Lookup" => effects[w][i].status = StatusNotFound
  /\ effects[w][i].op = "Create" => effects[w][i].status = StatusCreated

\* C16: the requests of one invocation are, in this order and each at most once,
\* the load, the Lookup (if any), the Create, the Secret creation and the status
\* update, and every request but the last one made has succeeded.
C16_StepsInOrderOnce ==
  \A w \in Workers :
    LET n == Len(effects[w])
    IN /\ n <= Len(StepsWithLookup)
       /\ \/ Ops(w) = SubSeq(StepsWithLookup, 1, n)
          \/ n <= Len(StepsWithoutLookup) /\ Ops(w) = SubSeq(StepsWithoutLookup, 1, n)
       /\ \A i \in 1..(n - 1) : WentOn(w, i)
       /\ pc[w] \notin {"idle", "done"} => \A i \in 1..n : WentOn(w, i)

\* all five requests were made, and the last one failed
C16_Witness ==
  /\ pc[1] = "done"
  /\ Ops(1) = StepsWithLookup
  /\ \A i \in 1..4 : WentOn(1, i)
  /\ effects[1][5].err # NoError
  /\ result[1] = effects[1][5].err

\* the identifier a Lookup request asks for: the last segment of its target
Requested(e) == e.url[Len(e.url)]

\* C17: an invocation that loads the resource takes the stored status, starts
\* with registered = false, and looks up exactly when that status carries an
\* identifier: then its next request is the Lookup of that identifier, and
\* otherwise its next request is the Create and it makes no Lookup at all.
C17_LookupIffIdentifier ==
  [][\A w \in Workers :
       /\ (pc[w] \in {"idle", "done"} /\ Moves(w) /\ effects'[w][1].err = NoError)
            => /\ client'[w].Status = resources[key'[w]].Status
               /\ ~registered'[w]
               /\ pc'[w] = IF client'[w].Status.ClientID # Nil THEN "lookup" ELSE "post"
       /\ (pc[w] = "lookup" /\ Moves(w))
            => /\ client[w].Status.ClientID # Nil
               /\ Ops(w)' = <<"Get", "Lookup">>
               /\ Requested(LastEffect(w)') = client[w].Status.ClientID
       /\ (pc[w] = "post" /\ Moves(w))
            => /\ Ops(w)' \in {<<"Get", "Create">>, <<"Get", "Lookup", "Create">>}
               /\ client[w].Status.ClientID = Nil <=> Ops(w)' = <<"Get", "Create">>
       /\ (pc[w] \in {"secret", "status"} /\ Moves(w))
            => LastEffect(w)'.op # "Lookup"]_vars

\* the second resource's identifier is looked up after the first one's was
C17_Witness ==
  /\ pc[1] = "done"
  /\ key[1] = "other"
  /\ Ops(1) = <<"Get", "Lookup">>
  /\ client[1].Status.ClientID = IdOf(2)
  /\ Requested(effects[1][2]) = IdOf(2)
  /\ Len(hydraPath) = Len(BasePath) + 2

\* C18 as claimed: with two workers on different resources, every Lookup goes
\* to {base}/{the invocation's own identifier}, every Create to {base}, and a
\* step of one worker leaves the other worker's resource and Secret as they were.
C18_NoInterference ==
  [][\A w \in Workers :
       /\ (pc[w] = "lookupStored" /\ Moves(w))
            => LastEffect(w)'.url = Append(BasePath, client[w].Status.ClientID)
       /\ (pc[w] = "postStored" /\ Moves(w)) => LastEffect(w)'.url = BasePath
       /\ Moves(w)
            => \A v \in Workers \ {w} :
                 /\ resources'[Owned(v)] = resources[Owned(v)]
                 /\ secrets'[Owned(v)] = secrets[Owned(v)]]_vars

\* C19: a recorded identifier is that of a record the registry made for this
\* resource, and the Secret named after the resource holds that record's secret.
C19_StatusAndSecretOfOneCreate ==
  \A k \in Keys :
    resources[k].Status.ClientID # Nil
      => \E r \in registry :
           /\ r.client_id = resources[k].Status.ClientID
           /\ r.client_name = k
           /\ secrets[k] = r.client_secret

\* two invocations for the same resource both had their Create accepted; one
\* registered the resource and the other failed at the Secret
C19_Witness ==
  \E k \in Keys, w \in Workers, v \in Workers :
    /\ w # v
    /\ key[w] = k /\ key[v] = k
    /\ Ops(w) = <<"Get", "Create", "SecretCreate", "StatusUpdate">>
    /\ Ops(v) = <<"Get", "Create", "SecretCreate">>
    /\ result[w] = NoError /\ pc[w] = "done"
    /\ result[v] = ErrAlreadyExists(k)
    /\ created[w].ClientID # created[v].ClientID
    /\ created[v].Secret # Nil
    /\ resources[k].Status.ClientID = created[w].ClientID
    /\ secrets[k] = created[w].Secret

\* C20: every request the registry client builds carries Accept:
\* application/json, and Content-Type: application/json exactly when it has a
\* body; a Create has a body and a Lookup has none.
C20_Headers ==
  calls.n > 0
    => /\ calls.last.req.Accept = "application/json"
       /\ calls.last.req.ContentType = "application/json" <=> calls.last.req.hasBody
       /\ ~calls.last.req.hasBody => calls.last.req.ContentType = Nil
       /\ calls.last.op = "Create" => calls.last.req.hasBody
       /\ calls.last.op = "Lookup" => ~calls.last.req.hasBody

\* a Lookup, without Content-Type, made after another request
C20_Witness ==
  /\ calls.n = 2
  /\ calls.last.op = "Lookup"
  /\ calls.last.req.Method = MethodGet
  /\ calls.last.req.Accept = "application/json"
  /\ calls.last.req.ContentType = Nil

\* the record worker w's Create returned lacks the identifier or the secret
Incomplete(c) == c.isNil \/ c.ClientID = Nil \/ c.Secret = Nil

\* C21 as claimed: when a Create answered 201 returns a record without
\* identifier or without secret, the invocation ends there with an error that is
\* not a crash, and no status update ever records an absent identifier.
C21_IncompleteRecordIsError ==
  [][\A w \in Workers :
       /\ (/\ pc[w] = "post"
           /\ Moves(w)
           /\ LastEffect(w)'.status = StatusCreated
           /\ Incomplete(created'[w]))
            => /\ pc'[w] = "done"
               /\ result'[w] # NoError
               /\ result'[w] # Panic
       /\ Registers(w) => resources'[key[w]].Status.ClientID # Nil]_vars

====
